---- MODULE Spec2Model ----
(***************************************************************************)
(* Biohacker Telegram webhook: the request handler of api/webhook.py and   *)
(* the processors it calls (groq_nlp, groq_whisper, gemini_vision).        *)
(*                                                                         *)
(* One invocation of do_POST is one element of DOMAIN pc.  Python strings  *)
(* whose characters the code inspects (message text, the classifier's      *)
(* answer) are sequences of one-character strings; Python dicts are        *)
(* records tagged with the field py; error messages are opaque strings.    *)
(***************************************************************************)
EXTENDS Integers, Sequences, FiniteSets, TLC

VARIABLES
    IMPORTS_OK,          \* webhook.py:22-34   the processors were imported
    GROQ_API_KEY,        \* webhook.py:38      the key is set (non-empty)
    GEMINI_API_KEY,      \* webhook.py:39
    TELEGRAM_BOT_TOKEN,  \* webhook.py:37
    tmpFile,             \* the content of /tmp/voice_message.ogg (groq_whisper.py:107)
    pc,                  \* per invocation: its position in do_POST
    payload,             \* per invocation: the POST body received
    result,              \* per invocation: what process_message returned
    calls,               \* per invocation: the collaborator calls made, in order
    ack,                 \* per invocation: the HTTP status written (0: none yet)
    voice,               \* per invocation: the locals of the voice path
    analysis_text,       \* gemini_vision.py:133  the text given to the extractor
    structured           \* gemini_vision.py:178  what the extractor did with it

vars == <<IMPORTS_OK, GROQ_API_KEY, GEMINI_API_KEY, TELEGRAM_BOT_TOKEN,
          tmpFile, pc, payload, result, calls, ack, voice, analysis_text, structured>>

\* The state of a call of extract_structured_meal_data on its own.
extractor == <<analysis_text, structured>>

config == <<IMPORTS_OK, GROQ_API_KEY, GEMINI_API_KEY, TELEGRAM_BOT_TOKEN>>

\* The largest number of invocations that run at the same time.
MaxConcurrent == 2

-----------------------------------------------------------------------------
(* Python values *)

None == [py |-> "None"]

Str(chars) == [py |-> "str", chars |-> chars]

EmptyDict == [py |-> "dict"]

Keys(d) == DOMAIN d \ {"py"}

\* dict.get(k, default)
Get(d, k, default) == IF k \in Keys(d) THEN d[k] ELSE default

\* bool(x) of a string, a dict, None, a non-zero number or a non-empty list
Truthy(x) ==
    CASE x.py = "str"  -> Len(x.chars) > 0
      [] x.py = "dict" -> Keys(x) # {}
      [] x.py \in {"int", "list", "bytes"} -> TRUE
      [] OTHER         -> FALSE

Whitespace == {" ", "\n", "\t"}

RECURSIVE LStrip(_)
LStrip(s) == IF s # <<>> /\ Head(s) \in Whitespace THEN LStrip(Tail(s)) ELSE s

RECURSIVE RStrip(_)
RStrip(s) ==
    IF s # <<>> /\ s[Len(s)] \in Whitespace
    THEN RStrip(SubSeq(s, 1, Len(s) - 1)) ELSE s

\* str.strip()
Strip(s) == RStrip(LStrip(s))

LowerChar(c) ==
    CASE c = "M" -> "m" [] c = "E" -> "e" [] c = "A" -> "a" [] c = "L" -> "l"
      [] c = "K" -> "k" [] c = "C" -> "c"
      [] OTHER -> c

\* str.lower()
Lower(s) == [i \in 1..Len(s) |-> LowerChar(s[i])]

\* str.startswith(c) for a one-character prefix
StartsWith(s, c) == Len(s) > 0 /\ s[1] = c

\* str.split()[0] of a string that holds a non-whitespace character
SplitFirst(s) ==
    LET t == LStrip(s)
        stops == { i \in 1..Len(t) : t[i] \in Whitespace }
    IN  IF stops = {} THEN t
        ELSE SubSeq(t, 1, (CHOOSE i \in stops : \A j \in stops : i <= j) - 1)

-----------------------------------------------------------------------------
(* The strings of the program *)

s_meal      == <<"m", "e", "a", "l">>
s_workout   == <<"w", "o", "r", "k", "o", "u", "t">>
s_hydration == <<"h", "y", "d", "r", "a", "t", "i", "o", "n">>
s_supplement == <<"s", "u", "p", "p", "l", "e", "m", "e", "n", "t">>
s_question  == <<"q", "u", "e", "s", "t", "i", "o", "n">>
s_greeting  == <<"g", "r", "e", "e", "t", "i", "n", "g">>
s_other     == <<"o", "t", "h", "e", "r">>

valid_intents ==
    {s_meal, s_workout, s_hydration, s_supplement, s_question, s_greeting, s_other}

\* The keys of handle_command's table.
commands ==
    { <<"/", "s", "t", "a", "r", "t">>, <<"/", "s", "t", "a", "t", "u", "s">>,
      <<"/", "a", "j", "u", "d", "a">>, <<"/", "r", "e", "f", "e", "i", "c", "a", "o">>,
      <<"/", "t", "r", "e", "i", "n", "o">>, <<"/", "a", "g", "u", "a">>,
      <<"/", "m", "e", "d", "i", "d", "a", "s">>,
      <<"/", "d", "a", "s", "h", "b", "o", "a", "r", "d">> }

\* The length of the preview of a text echoed by process_text.
PreviewLen == 100

\* text[:100] + ('...' if len(text) > 100 else '')
Preview(chars) ==
    IF Len(chars) > PreviewLen
    THEN SubSeq(chars, 1, PreviewLen) \o <<".", ".", ".">>
    ELSE chars

\* text[:4000] of send_message.
TelegramLimit == 4000

\* json.dumps(...)[:300] of process_text.
DumpLimit == 300

\* A text of n characters.
Repeat(c, n) == [i \in 1..n |-> c]

-----------------------------------------------------------------------------
(* What a collaborator's HTTP endpoint may answer *)

\* requests raised (connection error, timeout)
HttpExc == [exc |-> TRUE, status |-> 0, body |-> None]

HttpStatus(code) == [exc |-> FALSE, status |-> code, body |-> None]

Http200(body) == [exc |-> FALSE, status |-> 200, body |-> body]

\* The chat completion's content when the model is asked for one word.
ClassifyContents ==
    { Str(s_meal), Str(s_workout), Str(s_hydration), Str(s_supplement),
      Str(s_question), Str(s_greeting),
      Str(<<" ", "M", "e", "a", "l", "\n">>), Str(<<"p", "i", "z", "z", "a">>),
      None }

\* The fields the three extraction prompts ask for.
SchemaFields(schema) ==
    CASE schema = "meal"      -> {"tipo", "horario", "alimentos", "observacoes"}
      [] schema = "workout"   -> {"grupo_muscular", "horario", "exercicios", "observacoes"}
      [] schema = "hydration" -> {"tipo", "quantidade_ml", "horario", "observacoes"}

\* A JSON object with the given keys (the values are not inspected by the code).
JsonObject(keys) == [k \in keys \cup {"py"} |-> IF k = "py" THEN "dict" ELSE "v"]

\* The chat completion's content in JSON mode: text that parses to `value`, or
\* text that does not parse.
JsonText(value) == [py |-> "str", valid |-> TRUE, value |-> value]

NotJsonText == [py |-> "str", valid |-> FALSE, value |-> None]

ExtractContents(schema) ==
    { JsonText(JsonObject(SchemaFields(schema))),     \* the full record
      JsonText(JsonObject({"horario"})),              \* one field only
      JsonText(JsonObject({"resposta"})),             \* an object of another shape
      JsonText(EmptyDict),
      NotJsonText }

ChatOutcomes(contents) ==
    {HttpExc, HttpStatus(500)} \cup {Http200(c) : c \in contents}

-----------------------------------------------------------------------------
(* api/processors/groq_nlp.py *)

Failure(error) == [py |-> "dict", success |-> FALSE, error |-> error]

\* _call_groq that answers a failed call with a zero-valued record.
call_groq_zero_record(http, json_mode) ==
    IF ~GROQ_API_KEY THEN Failure("GROQ_API_KEY nao configurada")
    ELSE IF http.exc THEN Failure("ConnectionError")
    ELSE IF http.status = 200 THEN
        IF json_mode
        THEN IF http.body.valid
             THEN http.body.value
             ELSE [py |-> "dict", success |-> FALSE, error |-> "JSON invalido",
                   raw |-> "content"]
        ELSE [py |-> "dict", success |-> TRUE, text |-> http.body]
    ELSE [py |-> "dict", exercicios |-> <<>>, grupo_muscular |-> ""]

\* _call_groq: the dict returned for the endpoint's answer `http`.
call_groq(http, json_mode) ==
    IF ~GROQ_API_KEY THEN Failure("GROQ_API_KEY nao configurada")
    ELSE IF http.exc THEN Failure("ConnectionError")
    ELSE IF http.status = 200 THEN
        IF json_mode
        THEN IF http.body.valid
             THEN http.body.value
             ELSE [py |-> "dict", success |-> FALSE, error |-> "JSON invalido",
                   raw |-> "content"]
        ELSE [py |-> "dict", success |-> TRUE, text |-> http.body]
    ELSE Failure("API Error")

\* A function's outcome: the value returned, or the exception raised.
Return(v) == [raised |-> FALSE, exc |-> "", value |-> v]

Raise(e) == [raised |-> TRUE, exc |-> e, value |-> None]

\* classify_intent that returns the model's word without testing it against
\* valid_intents.
classify_intent_unvalidated(http) ==
    LET r    == call_groq(http, FALSE)
        text == Get(r, "text", Str(s_other))
    IN  IF text.py # "str" THEN Raise("AttributeError")
        ELSE Return(Lower(Strip(text.chars)))

\* classify_intent: a label of valid_intents, or AttributeError when the content
\* is null (None has no strip()).
classify_intent(http) ==
    LET r    == call_groq(http, FALSE)
        text == Get(r, "text", Str(s_other))
    IN  IF text.py # "str" THEN Raise("AttributeError")
        ELSE LET intent == Lower(Strip(text.chars))
             IN  Return(IF intent \in valid_intents THEN intent ELSE s_other)

\* extract_meal_data, extract_workout_data, extract_hydration_data
extract_data(http) == call_groq(http, TRUE)

-----------------------------------------------------------------------------
(* api/processors/groq_whisper.py *)

\* The voice note an invocation's message refers to.
Audio(p) == [py |-> "bytes", of |-> p]

Digit(n) == CASE n = 1 -> "1" [] n = 2 -> "2" [] n = 3 -> "3" [] OTHER -> "9"

\* What the Whisper endpoint hears in a given audio (one text per voice note).
Transcript(audio) == <<"v", "o", "z", Digit(audio.of)>>

\* A long recording of the same speaker: one character more than a preview.
LongTranscript(audio) == <<Digit(audio.of)>> \o Repeat("z", PreviewLen)

WhisperOutcomes(audio) ==
    { HttpExc, HttpStatus(500),
      Http200([py |-> "dict", text |-> Str(Transcript(audio))]),
      Http200([py |-> "dict", text |-> Str(LongTranscript(audio))]) }

FailureText(error) == [py |-> "dict", success |-> FALSE, error |-> error, text |-> Str(<<>>)]

\* transcribe_audio: `file` is what open(file_path, 'rb') finds at the path
\* (None: no such file), `http` the endpoint's answer to the upload.
transcribe_audio(file, http) ==
    IF ~GROQ_API_KEY THEN FailureText("GROQ_API_KEY nao configurada")
    ELSE IF file = None THEN FailureText("FileNotFoundError")
    ELSE IF http.exc THEN FailureText("ConnectionError")
    ELSE IF http.status = 200
         THEN [py |-> "dict", success |-> TRUE,
               text |-> Get(http.body, "text", Str(<<>>))]
         ELSE FailureText("API Error")

-----------------------------------------------------------------------------
(* api/processors/gemini_vision.py *)

IsDigit(c) == c \in {"0", "1", "2", "3", "4", "5", "6", "7", "8", "9"}

DigitValue(c) ==
    CASE c = "0" -> 0 [] c = "1" -> 1 [] c = "2" -> 2 [] c = "3" -> 3 [] c = "4" -> 4
      [] c = "5" -> 5 [] c = "6" -> 6 [] c = "7" -> 7 [] c = "8" -> 8 [] OTHER -> 9

RECURSIVE ParseInt(_)
\* int() of a run of digits
ParseInt(ds) ==
    IF ds = <<>> THEN 0
    ELSE 10 * ParseInt(SubSeq(ds, 1, Len(ds) - 1)) + DigitValue(ds[Len(ds)])

RECURSIVE Split(_, _)
\* str.split(sep) for a one-character separator
Split(s, sep) ==
    IF \A i \in 1..Len(s) : s[i] # sep THEN <<s>>
    ELSE LET k == CHOOSE i \in 1..Len(s) :
                      s[i] = sep /\ \A j \in 1..(i - 1) : s[j] # sep
         IN  <<SubSeq(s, 1, k - 1)>> \o Split(SubSeq(s, k + 1, Len(s)), sep)

RECURSIVE Join(_, _)
\* sep.join(parts)
Join(parts, sep) ==
    IF parts = <<>> THEN <<>>
    ELSE IF Len(parts) = 1 THEN parts[1]
    ELSE parts[1] \o <<sep>> \o Join(Tail(parts), sep)

\* The end of the run of digits that starts at i.
DigitRunEnd(s, i) ==
    LET stops == { j \in i..Len(s) : j = Len(s) \/ ~IsDigit(s[j + 1]) }
    IN  CHOOSE j \in stops : \A k \in stops : j <= k

RECURSIVE SkipSpace(_, _)
\* The first position at or after i that holds no whitespace.
SkipSpace(s, i) ==
    IF i <= Len(s) /\ s[i] \in Whitespace THEN SkipSpace(s, i + 1) ELSE i

HasAt(s, i, word) ==
    /\ i + Len(word) - 1 <= Len(s)
    /\ \A k \in 1..Len(word) : s[i + k - 1] = word[k]

\* re.search(r'(\d+)g', s): the starts of the matches of (\d+)g
GramStarts(s) ==
    { i \in 1..Len(s) : IsDigit(s[i]) /\ HasAt(s, DigitRunEnd(s, i) + 1, <<"g">>) }

\* re.search(r'(\d+)\s*kcal', s)
KcalStarts(s) ==
    { i \in 1..Len(s) :
        IsDigit(s[i]) /\ HasAt(s, SkipSpace(s, DigitRunEnd(s, i) + 1), <<"k", "c", "a", "l">>) }

Min(S) == CHOOSE x \in S : \A y \in S : x <= y

\* int(match.group(1)) of the leftmost match, given the set of match starts
FirstNumber(s, starts) ==
    LET i == Min(starts) IN ParseInt(SubSeq(s, i, DigitRunEnd(s, i)))

\* The bullet character U+2022 of line 152.
Bullet == "*"

Contains(s, word) == \E i \in 1..Len(s) : HasAt(s, i, word)

\* The item of a line whose note is the text between the first and the second
\* colon (parts[1] instead of ':'.join(parts[1:])).
ItemsOfLine_SecondPartOnly(line) ==
    IF StartsWith(line, "-") \/ StartsWith(line, Bullet)
    THEN LET parts == Split(Strip(Tail(line)), ":") IN
         IF Len(parts) >= 2
         THEN LET resto == Strip(parts[2]) IN
              << [nome |-> Strip(parts[1]),
                  quantidade_g |-> IF GramStarts(resto) # {}
                                   THEN FirstNumber(resto, GramStarts(resto)) ELSE 0,
                  descricao |-> resto] >>
         ELSE <<>>
    ELSE <<>>

\* The item of a line whose bullet marker is left in the name (line instead of
\* line[1:]).
ItemsOfLine_KeepMarker(line) ==
    IF StartsWith(line, "-") \/ StartsWith(line, Bullet)
    THEN LET parts == Split(Strip(line), ":") IN
         IF Len(parts) >= 2
         THEN LET resto == Strip(Join(Tail(parts), ":")) IN
              << [nome |-> Strip(parts[1]),
                  quantidade_g |-> IF GramStarts(resto) # {}
                                   THEN FirstNumber(resto, GramStarts(resto)) ELSE 0,
                  descricao |-> resto] >>
         ELSE <<>>
    ELSE <<>>

\* extract_structured_meal_data, lines 152-169: the item of one stripped line
ItemsOfLine(line) ==
    IF StartsWith(line, "-") \/ StartsWith(line, Bullet)
    THEN LET parts == Split(Strip(Tail(line)), ":") IN
         IF Len(parts) >= 2
         THEN LET resto == Strip(Join(Tail(parts), ":")) IN
              << [nome |-> Strip(parts[1]),
                  quantidade_g |-> IF GramStarts(resto) # {}
                                   THEN FirstNumber(resto, GramStarts(resto)) ELSE 0,
                  descricao |-> resto] >>
         ELSE <<>>
    ELSE <<>>

RECURSIVE ScanLines_KcalInsideBullet(_, _, _)
\* The loop with the calorie test indented into the bullet branch: calories
\* are looked for on bullet lines only.
ScanLines_KcalInsideBullet(lines, alimentos, total_calorias) ==
    IF lines = <<>> THEN [alimentos |-> alimentos, total_calorias |-> total_calorias]
    ELSE LET line == Strip(Head(lines))
             low  == Lower(line)
         IN  ScanLines_KcalInsideBullet(Tail(lines), alimentos \o ItemsOfLine(line),
                       IF /\ StartsWith(line, "-") \/ StartsWith(line, Bullet)
                          /\ Contains(low, <<"k", "c", "a", "l">>) /\ KcalStarts(low) # {}
                       THEN FirstNumber(low, KcalStarts(low))
                       ELSE total_calorias)

RECURSIVE ScanLines_Exclusive(_, _, _)
\* The loop that looks for calories only on lines without a bullet marker
\* (elif instead of the second if).
ScanLines_Exclusive(lines, alimentos, total_calorias) ==
    IF lines = <<>> THEN [alimentos |-> alimentos, total_calorias |-> total_calorias]
    ELSE LET line == Strip(Head(lines))
             low  == Lower(line)
         IN  ScanLines_Exclusive(Tail(lines), alimentos \o ItemsOfLine(line),
                       IF /\ ~(StartsWith(line, "-") \/ StartsWith(line, Bullet))
                          /\ Contains(low, <<"k", "c", "a", "l">>) /\ KcalStarts(low) # {}
                       THEN FirstNumber(low, KcalStarts(low))
                       ELSE total_calorias)

RECURSIVE ScanLines_Prepend(_, _, _)
\* The loop that puts each new item in front of the list (insert(0, ...)
\* instead of append).
ScanLines_Prepend(lines, alimentos, total_calorias) ==
    IF lines = <<>> THEN [alimentos |-> alimentos, total_calorias |-> total_calorias]
    ELSE LET line == Strip(Head(lines))
             low  == Lower(line)
         IN  ScanLines_Prepend(Tail(lines), ItemsOfLine(line) \o alimentos,
                       IF Contains(low, <<"k", "c", "a", "l">>) /\ KcalStarts(low) # {}
                       THEN FirstNumber(low, KcalStarts(low))
                       ELSE total_calorias)

RECURSIVE ScanLines(_, _, _)
\* The loop of extract_structured_meal_data over the lines still to read.
ScanLines(lines, alimentos, total_calorias) ==
    IF lines = <<>> THEN [alimentos |-> alimentos, total_calorias |-> total_calorias]
    ELSE LET line == Strip(Head(lines))
             low  == Lower(line)
         IN  ScanLines(Tail(lines), alimentos \o ItemsOfLine(line),
                       IF Contains(low, <<"k", "c", "a", "l">>) /\ KcalStarts(low) # {}
                       THEN FirstNumber(low, KcalStarts(low))
                       ELSE total_calorias)

\* The longest run of digits int() converts (CPython's int_max_str_digits);
\* a longer run raises ValueError.
int_max_str_digits == 4300

\* int(match.group(1)) of the leftmost match raises.
IntRaises(s, starts) ==
    /\ starts # {}
    /\ DigitRunEnd(s, Min(starts)) - Min(starts) + 1 > int_max_str_digits

\* Lines 152-176 raise on this stripped line.
LineRaises(line) ==
    \/ /\ StartsWith(line, "-") \/ StartsWith(line, Bullet)
       /\ LET parts == Split(Strip(Tail(line)), ":") IN
          /\ Len(parts) >= 2
          /\ LET resto == Strip(Join(Tail(parts), ":")) IN IntRaises(resto, GramStarts(resto))
    \/ /\ Contains(Lower(line), <<"k", "c", "a", "l">>)
       /\ IntRaises(Lower(line), KcalStarts(Lower(line)))

\* The dict of lines 178-182, for a text none of whose lines raises.
StructuredRecord(text) ==
    LET r == ScanLines(Split(text, "\n"), <<>>, 0) IN
    [py |-> "dict", alimentos |-> r.alimentos,
     total_calorias_estimada |-> r.total_calorias,
     analise_completa |-> Str(text)]

\* extract_structured_meal_data: the record returned, or the ValueError of a
\* quantity that int() refuses.
extract_structured_meal_data(text) ==
    LET lines == Split(text, "\n") IN
    IF \E i \in 1..Len(lines) : LineRaises(Strip(lines[i]))
    THEN Raise("ValueError")
    ELSE Return(StructuredRecord(text))

\* The prose the vision model may answer with.
Analyses ==
    { <<"-", " ", "A", "r", "r", "o", "z", ":", " ", "~", "1", "5", "0", "g", "\n",
        "~", "6", "5", "0", " ", "k", "c", "a", "l">>,
      <<"p", "r", "a", "t", "o">>,
      Repeat("p", TelegramLimit + 1) }

VisionOutcomes ==
    { HttpExc, HttpStatus(500), Http200([py |-> "dict", candidates |-> <<>>]) }
    \cup { Http200([py |-> "dict", candidates |-> <<a>>]) : a \in Analyses }

\* analyze_meal_photo: `http` is the vision endpoint's answer
analyze_meal_photo(http) ==
    IF ~GEMINI_API_KEY
    THEN [py |-> "dict", success |-> FALSE, error |-> "GEMINI_API_KEY nao configurada"]
    ELSE IF http.exc THEN [py |-> "dict", success |-> FALSE, error |-> "ConnectionError"]
    ELSE IF http.status = 200
         THEN IF http.body.candidates # <<>>
              THEN [py |-> "dict", success |-> TRUE,
                    analysis |-> Str(http.body.candidates[1])]
              ELSE [py |-> "dict", success |-> FALSE, error |-> "Sem candidatos na resposta"]
         ELSE [py |-> "dict", success |-> FALSE, error |-> "API Error"]

DownloadOutcomes(content) == {HttpExc, HttpStatus(404), Http200(content)}

\* analyze_meal_from_telegram that returns the vision result as it is, without
\* the regex extractor.
analyze_meal_from_telegram_unstructured(download, vision) ==
    IF download.exc
    THEN [py |-> "dict", success |-> FALSE, error |-> "ConnectionError"]
    ELSE IF download.status # 200
    THEN [py |-> "dict", success |-> FALSE, error |-> "Erro ao baixar foto"]
    ELSE analyze_meal_photo(vision)

\* analyze_meal_from_telegram: `download` answers requests.get(file_url),
\* `vision` answers the vision call (made only after a 200 download).
analyze_meal_from_telegram(download, vision) ==
    IF download.exc
    THEN [py |-> "dict", success |-> FALSE, error |-> "ConnectionError"]
    ELSE IF download.status # 200
    THEN [py |-> "dict", success |-> FALSE, error |-> "Erro ao baixar foto"]
    ELSE LET r == analyze_meal_photo(vision) IN
         IF r.success
         THEN LET x == extract_structured_meal_data(r.analysis.chars) IN
              IF x.raised
              THEN [py |-> "dict", success |-> FALSE, error |-> x.exc]
              ELSE [py |-> "dict", success |-> TRUE, analysis |-> r.analysis,
                    structured |-> x.value]
         ELSE r

-----------------------------------------------------------------------------
(* api/webhook.py: the values it handles *)

\* A message as process_message reads it: text is message.get('text', ''),
\* voice and photo are message.get(...), None when the key is absent.
Message(text, voice_note, photo) ==
    [py |-> "dict", text |-> text, voice |-> voice_note, photo |-> photo]

VoiceNote == [py |-> "dict", file_id |-> "voice", duration |-> 3]

PhotoList == [py |-> "list", file_id |-> "photo"]

\* Message texts: empty, blank, short, as long as a preview, one character
\* longer, a known and an unknown command.
Texts ==
    { Str(<<>>), Str(<<" ">>), Str(<<"o", "i">>),
      Str(Repeat("a", PreviewLen)), Str(Repeat("a", PreviewLen + 1)),
      Str(<<"/", "s", "t", "a", "r", "t">>), Str(<<"/", "x">>) }

Messages ==
    { Message(t, v, ph) : t \in Texts, v \in {None, VoiceNote}, ph \in {None, PhotoList} }
    \cup { Message([py |-> "int"], None, None) }

\* The POST body: text that is no JSON, an update without 'message', an update
\* whose 'message' is no object, an update with a message.
Payloads ==
    { [json |-> FALSE, data |-> None],
      [json |-> TRUE, data |-> [py |-> "dict", update_id |-> "v"]],
      [json |-> TRUE, data |-> [py |-> "dict", update_id |-> "v", message |-> Str(<<"x">>)]] }
    \cup { [json |-> TRUE, data |-> [py |-> "dict", update_id |-> "v", message |-> m]] :
             m \in Messages }

\* One payload per path of do_POST and process_message.
ConcurrentPayloads ==
    { [json |-> FALSE, data |-> None],
      [json |-> TRUE, data |-> [py |-> "dict", update_id |-> "v"]],
      [json |-> TRUE, data |-> [py |-> "dict", update_id |-> "v", message |-> Str(<<"x">>)]] }
    \cup { [json |-> TRUE, data |-> [py |-> "dict", update_id |-> "v", message |-> m]] :
             m \in { Message([py |-> "int"], None, None),
                     Message(Str(<<>>), None, None),
                     Message(Str(<<"o", "i">>), None, None),
                     Message(Str(<<"/", "s", "t", "a", "r", "t">>), None, None),
                     Message(Str(<<>>), VoiceNote, None),
                     Message(Str(<<>>), None, PhotoList) } }

NoPayload == [json |-> FALSE, data |-> [py |-> "unset"]]

\* One piece of a reply text: a literal of the source, or a literal followed by
\* a formatted value.
Seg(name, val) == [seg |-> name, val |-> val]

Lit(name) == Seg(name, None)

\* An error message inside a reply.
Err(e) == Str(<<e>>)

\* The dict process_message returns.
Result(response, data) == [response |-> response, data |-> data]

NoResult == Result(<<>>, [py |-> "unset"])

\* One collaborator call: the operation, the schema asked for (extraction), the
\* text passed, and what the endpoint answered.
Call(op, schema, arg, http) == [op |-> op, schema |-> schema, arg |-> arg, http |-> http]

\* What a handler did: its outcome and the calls it made.
Did(out, made) == [out |-> out, calls |-> made]

-----------------------------------------------------------------------------
(* api/webhook.py: process_message and the paths it selects *)

\* Route with the voice note tested before the photo.
Route_VoiceFirst(m) ==
    IF Truthy(m.text) /\ m.text.py # "str" THEN "raise"
    ELSE IF Truthy(m.text) /\ StartsWith(m.text.chars, "/") THEN "command"
    ELSE IF Truthy(m.voice) /\ IMPORTS_OK /\ GROQ_API_KEY THEN "voice"
    ELSE IF Truthy(m.photo) /\ IMPORTS_OK /\ GEMINI_API_KEY THEN "photo"
    ELSE IF Truthy(m.text) /\ IMPORTS_OK /\ GROQ_API_KEY THEN "text"
    ELSE "fallback"

\* Route whose voice test leaves out GROQ_API_KEY.
Route_VoiceWithoutKey(m) ==
    IF Truthy(m.text) /\ m.text.py # "str" THEN "raise"
    ELSE IF Truthy(m.text) /\ StartsWith(m.text.chars, "/") THEN "command"
    ELSE IF Truthy(m.photo) /\ IMPORTS_OK /\ GEMINI_API_KEY THEN "photo"
    ELSE IF Truthy(m.voice) /\ IMPORTS_OK THEN "voice"
    ELSE IF Truthy(m.text) /\ IMPORTS_OK /\ GROQ_API_KEY THEN "text"
    ELSE "fallback"

\* Route with the command test after the media tests.
Route_CommandLast(m) ==
    IF Truthy(m.text) /\ m.text.py # "str" THEN "raise"
    ELSE IF Truthy(m.photo) /\ IMPORTS_OK /\ GEMINI_API_KEY THEN "photo"
    ELSE IF Truthy(m.voice) /\ IMPORTS_OK /\ GROQ_API_KEY THEN "voice"
    ELSE IF Truthy(m.text) /\ StartsWith(m.text.chars, "/") THEN "command"
    ELSE IF Truthy(m.text) /\ IMPORTS_OK /\ GROQ_API_KEY THEN "text"
    ELSE "fallback"

\* process_message: the path taken for message m ("raise": evaluating the
\* command test raised, text being no string).
Route(m) ==
    IF Truthy(m.text) /\ m.text.py # "str" THEN "raise"
    ELSE IF Truthy(m.text) /\ StartsWith(m.text.chars, "/") THEN "command"
    ELSE IF Truthy(m.photo) /\ IMPORTS_OK /\ GEMINI_API_KEY THEN "photo"
    ELSE IF Truthy(m.voice) /\ IMPORTS_OK /\ GROQ_API_KEY THEN "voice"
    ELSE IF Truthy(m.text) /\ IMPORTS_OK /\ GROQ_API_KEY THEN "text"
    ELSE "fallback"

fallback == Result(<<Lit("mensagem_recebida")>>, None)

handle_command(text) ==
    LET command == Lower(SplitFirst(text.chars)) IN
    Result(IF command \in commands
           THEN <<Seg("command_reply", Str(command))>>
           ELSE <<Seg("comando_nao_reconhecido", Str(command))>>,
           [py |-> "dict", type |-> "command", command |-> Str(command)])

GetFileOutcomes ==
    { HttpExc, HttpStatus(500),
      Http200([py |-> "dict", ok |-> FALSE]),
      Http200([py |-> "dict", ok |-> TRUE, file_path |-> "path"]) }

\* get_telegram_file_url that builds a URL whatever getFile answered.
get_telegram_file_url_unchecked(http) == Str(<<"u", "r", "l">>)

\* get_telegram_file_url: the file's URL, or None
get_telegram_file_url(http) ==
    IF http.exc THEN None
    ELSE IF http.status = 200 /\ Get(http.body, "ok", FALSE)
         THEN Str(<<"u", "r", "l">>)
         ELSE None

Image == [py |-> "bytes", of |-> 0]

process_photo_except(e) == Return(Result(<<Seg("erro_processar_foto", Err(e))>>, None))

\* process_photo: the three answers are those of getFile, of the download and of
\* the vision endpoint (each read only if the call is made).
process_photo(photo_list, caption, getfile, download, vision) ==
    LET file_url == get_telegram_file_url(getfile)
        c1 == <<Call("getFile", "", None, getfile)>>
    IN  IF ~Truthy(file_url)
        THEN Did(Return(Result(<<Lit("erro_acessar_foto")>>, None)), c1)
        ELSE
        LET r  == analyze_meal_from_telegram(download, vision)
            c2 == c1 \o <<Call("download", "", None, download)>>
                     \o (IF ~download.exc /\ download.status = 200
                         THEN <<Call("vision", "", None, vision)>> ELSE <<>>)
        IN  IF r.success
            THEN Did(Return(Result(
                       <<Lit("foto_analisada"), Seg("analysis", r.analysis)>>
                       \o (IF Truthy(caption) THEN <<Seg("legenda", caption)>> ELSE <<>>)
                       \o <<Lit("dados_salvos_fila")>>,
                       [py |-> "dict", type |-> "meal_photo", analysis |-> r.analysis,
                        structured |-> Get(r, "structured", EmptyDict),
                        caption |-> caption])), c2)
            ELSE Did(Return(Result(
                       <<Seg("erro_analise", Err(Get(r, "error", "Desconhecido")))>>,
                       None)), c2)

\* SchemaOf that also extracts a meal from a greeting.
SchemaOf_GreetingAsMeal(intent) ==
    CASE intent = s_meal      -> "meal"
      [] intent = s_workout   -> "workout"
      [] intent = s_hydration -> "hydration"
      [] intent = s_greeting  -> "meal"
      [] OTHER                -> "none"

\* The schema whose extraction an intent selects (lines 245-253 and 199-204).
SchemaOf(intent) ==
    CASE intent = s_meal      -> "meal"
      [] intent = s_workout   -> "workout"
      [] intent = s_hydration -> "hydration"
      [] OTHER                -> "none"

action_desc(intent) ==
    CASE intent = s_meal      -> "Refeicao"
      [] intent = s_workout   -> "Treino"
      [] intent = s_hydration -> "Hidratacao"
      [] OTHER                -> "Mensagem"

\* The answers the extraction call can get after the classifier answered chttp
\* (a single unused value when no extraction is called).
ExtractOutcomesAfter(chttp) ==
    LET c == classify_intent(chttp) IN
    IF ~c.raised /\ SchemaOf(c.value) # "none"
    THEN ChatOutcomes(ExtractContents(SchemaOf(c.value)))
    ELSE {HttpExc}

\* Lines 239-253 and 196-204: classify, then extract by intent.
classify_and_extract(text, chttp, ehttp) ==
    LET c  == classify_intent(chttp)
        c1 == <<Call("classify", "", Str(text), chttp)>>
    IN  IF c.raised THEN [raised |-> TRUE, exc |-> c.exc, intent |-> s_other,
                          extracted |-> None, calls |-> c1]
        ELSE IF SchemaOf(c.value) # "none"
        THEN [raised |-> FALSE, exc |-> "", intent |-> c.value,
              extracted |-> extract_data(ehttp),
              calls |-> c1 \o <<Call("extract", SchemaOf(c.value), Str(text), ehttp)>>]
        ELSE [raised |-> FALSE, exc |-> "", intent |-> c.value,
              extracted |-> None, calls |-> c1]

\* process_text without its try/except.
process_text_reraise(e) == Raise(e)

process_text_except(e) == Return(Result(<<Seg("erro_processamento", Err(e))>>, None))

process_text(text, chttp, ehttp) ==
    LET x == classify_and_extract(text.chars, chttp, ehttp) IN
    IF x.raised THEN Did(process_text_except(x.exc), x.calls)
    ELSE Did(Return(Result(
               <<Seg("registrada", Err(action_desc(x.intent))),
                 Seg("texto", Str(Preview(text.chars))),
                 Seg("intencao", Str(x.intent))>>
               \o (IF Truthy(x.extracted) THEN <<Seg("dados", x.extracted)>> ELSE <<>>)
               \o <<Lit("salvo_fila")>>,
               [py |-> "dict", type |-> "text", text |-> text,
                intent |-> Str(x.intent), extracted |-> x.extracted])), x.calls)

process_voice_except(e) == Return(Result(<<Seg("erro_processar_audio", Err(e))>>, None))

\* process_voice that classifies result['text'] before it tests
\* result['success'].
process_voice_tail_classify_first(res, duration, chttp, ehttp) ==
    LET transcription == res.text
        x == classify_and_extract(transcription.chars, chttp, ehttp)
    IN  IF x.raised THEN Did(process_voice_except(x.exc), x.calls)
        ELSE IF res.success
        THEN Did(Return(Result(
                   <<Lit("audio_transcrito"), Seg("transcricao", transcription),
                     Seg("intencao", Str(x.intent))>>
                   \o (IF Truthy(x.extracted)
                       THEN <<Seg("dados_extraidos", x.extracted)>> ELSE <<>>)
                   \o <<Lit("salvo_fila")>>,
                   [py |-> "dict", type |-> "voice", transcription |-> transcription,
                    intent |-> Str(x.intent), extracted |-> x.extracted,
                    duration |-> duration])), x.calls)
        ELSE Did(Return(Result(
                   <<Seg("erro_transcricao", Err(Get(res, "error", "Desconhecido")))>>,
                   None)), x.calls)

\* process_voice from line 192 on: `res` is what transcribe_from_telegram returned.
process_voice_tail(res, duration, chttp, ehttp) ==
    IF res.success
    THEN LET transcription == res.text
             x == classify_and_extract(transcription.chars, chttp, ehttp)
         IN  IF x.raised THEN Did(process_voice_except(x.exc), x.calls)
             ELSE Did(Return(Result(
                        <<Lit("audio_transcrito"), Seg("transcricao", transcription),
                          Seg("intencao", Str(x.intent))>>
                        \o (IF Truthy(x.extracted)
                            THEN <<Seg("dados_extraidos", x.extracted)>> ELSE <<>>)
                        \o <<Lit("salvo_fila")>>,
                        [py |-> "dict", type |-> "voice", transcription |-> transcription,
                         intent |-> Str(x.intent), extracted |-> x.extracted,
                         duration |-> duration])), x.calls)
    ELSE Did(Return(Result(
               <<Seg("erro_transcricao", Err(Get(res, "error", "Desconhecido")))>>,
               None)), <<>>)

-----------------------------------------------------------------------------
(* The state machine *)

Unset == [py |-> "unset"]

NoVoice == [res |-> Unset]

InitWith(n, configs) ==
    /\ \E c \in configs :
        /\ IMPORTS_OK = c[1]
        /\ GROQ_API_KEY = c[2]
        /\ GEMINI_API_KEY = c[3]
        /\ TELEGRAM_BOT_TOKEN = c[4]
    /\ tmpFile = None
    /\ pc = [p \in 1..n |-> "idle"]
    /\ payload = [p \in 1..n |-> NoPayload]
    /\ result = [p \in 1..n |-> NoResult]
    /\ calls = [p \in 1..n |-> <<>>]
    /\ ack = [p \in 1..n |-> 0]
    /\ voice = [p \in 1..n |-> NoVoice]

\* One request at a time (HTTPServer.serve_forever), any configuration.
Init ==
    /\ InitWith(1, BOOLEAN \X BOOLEAN \X BOOLEAN \X BOOLEAN)
    /\ analysis_text = <<>> /\ structured = Unset

\* Requests served in parallel by a fully configured deployment.
InitConcurrent ==
    /\ InitWith(MaxConcurrent, {<<TRUE, TRUE, TRUE, TRUE>>})
    /\ analysis_text = <<>> /\ structured = Unset

\* The bodies that may arrive: any payload for a lone request, one payload per
\* path when requests run in parallel.
Arrivals == IF Cardinality(DOMAIN pc) > 1 THEN ConcurrentPayloads ELSE Payloads

\* The answers of the classification endpoint: any answer for a lone request,
\* a failure and two labels when requests run in parallel.
ClassifyOutcomes ==
    IF Cardinality(DOMAIN pc) > 1
    THEN {HttpExc, Http200(Str(s_meal)), Http200(Str(s_greeting))}
    ELSE ChatOutcomes(ClassifyContents)

msg(p) == payload[p].data.message

\* Invocation p exists and is at `label`.
At(p, label) == p \in DOMAIN pc /\ pc[p] = label

Goto(p, label) == pc' = [pc EXCEPT ![p] = label]

\* do_POST, lines 65-75 and 92-94: read and parse the body, find the message.
DoPost(p) ==
    /\ At(p, "idle")
    /\ \E b \in Arrivals :
        /\ payload' = [payload EXCEPT ![p] = b]
        /\ IF ~b.json
           THEN Goto(p, "except") /\ UNCHANGED ack
           ELSE IF "message" \notin Keys(b.data)
           THEN Goto(p, "done") /\ ack' = [ack EXCEPT ![p] = 200]
           ELSE IF b.data.message.py # "dict"
           THEN Goto(p, "except") /\ UNCHANGED ack
           ELSE Goto(p, "process") /\ UNCHANGED ack
    /\ UNCHANGED <<config, extractor, tmpFile, result, calls, voice>>

\* do_POST, line 78: process_message returned, or raised into line 96.
Returned(p, did) ==
    /\ calls' = [calls EXCEPT ![p] = @ \o did.calls]
    /\ IF did.out.raised
       THEN Goto(p, "except") /\ UNCHANGED result
       ELSE Goto(p, "send") /\ result' = [result EXCEPT ![p] = did.out.value]
    /\ UNCHANGED <<config, extractor, tmpFile, payload, ack, voice>>

ProcessMessageRaises(p) ==
    /\ At(p, "process") /\ Route(msg(p)) = "raise"
    /\ Returned(p, Did(Raise("AttributeError"), <<>>))

HandleCommand(p) ==
    /\ At(p, "process") /\ Route(msg(p)) = "command"
    /\ Returned(p, Did(Return(handle_command(msg(p).text)), <<>>))

ProcessPhoto(p) ==
    /\ At(p, "process") /\ Route(msg(p)) = "photo"
    /\ \E g \in GetFileOutcomes, d \in DownloadOutcomes(Image), v \in VisionOutcomes :
        Returned(p, process_photo(msg(p).photo, msg(p).text, g, d, v))

ProcessText(p) ==
    /\ At(p, "process") /\ Route(msg(p)) = "text"
    /\ \E chttp \in ClassifyOutcomes :
        \E ehttp \in ExtractOutcomesAfter(chttp) :
            Returned(p, process_text(msg(p).text, chttp, ehttp))

Fallback(p) ==
    /\ At(p, "process") /\ Route(msg(p)) = "fallback"
    /\ Returned(p, Did(Return(fallback), <<>>))

\* process_voice, lines 181-187: resolve the voice note's URL.
ProcessVoice(p) ==
    /\ At(p, "process") /\ Route(msg(p)) = "voice"
    /\ \E g \in GetFileOutcomes :
        /\ calls' = [calls EXCEPT ![p] = Append(@, Call("getFile", "", None, g))]
        /\ IF Truthy(get_telegram_file_url(g))
           THEN Goto(p, "download") /\ UNCHANGED result
           ELSE /\ Goto(p, "send")
                /\ result' = [result EXCEPT ![p] = Result(<<Lit("erro_acessar_audio")>>, None)]
    /\ UNCHANGED <<config, extractor, tmpFile, payload, ack, voice>>

SetRes(p, res) == voice' = [voice EXCEPT ![p].res = res]

\* transcribe_from_telegram, lines 98-109: download, write the temporary file.
VoiceDownload(p) ==
    /\ At(p, "download")
    /\ \E d \in DownloadOutcomes(Audio(p)) :
        /\ calls' = [calls EXCEPT ![p] = Append(@, Call("download", "", None, d))]
        /\ IF d.exc
           THEN SetRes(p, FailureText("ConnectionError")) /\ Goto(p, "finish")
                /\ UNCHANGED tmpFile
           ELSE IF d.status # 200
           THEN SetRes(p, FailureText("Erro ao baixar audio")) /\ Goto(p, "finish")
                /\ UNCHANGED tmpFile
           ELSE tmpFile' = d.body /\ Goto(p, "transcribe") /\ UNCHANGED voice
    /\ UNCHANGED <<config, extractor, payload, result, ack>>

\* transcribe_from_telegram, line 112: transcribe_audio opens the temporary
\* file and uploads what it holds.
VoiceTranscribe(p) ==
    /\ At(p, "transcribe")
    /\ IF GROQ_API_KEY /\ tmpFile # None
       THEN \E w \in WhisperOutcomes(tmpFile) :
               /\ SetRes(p, transcribe_audio(tmpFile, w))
               /\ calls' = [calls EXCEPT ![p] = Append(@, Call("transcribe", "", tmpFile, w))]
       ELSE SetRes(p, transcribe_audio(tmpFile, HttpExc)) /\ UNCHANGED calls
    /\ Goto(p, "exists")
    /\ UNCHANGED <<config, extractor, tmpFile, payload, result, ack>>

\* A voice path that waits at line 115 until the temporary file is gone.
VoiceExists_Wait(p) ==
    /\ At(p, "exists")
    /\ Goto(p, IF tmpFile # None THEN "exists" ELSE "finish")
    /\ UNCHANGED <<config, extractor, tmpFile, payload, result, calls, ack, voice>>

\* transcribe_from_telegram, line 115: os.path.exists(temp_path)
VoiceExists(p) ==
    /\ At(p, "exists")
    /\ Goto(p, IF tmpFile # None THEN "remove" ELSE "finish")
    /\ UNCHANGED <<config, extractor, tmpFile, payload, result, calls, ack, voice>>

\* transcribe_from_telegram, line 116: os.remove(temp_path); a missing file
\* raises into line 120.
VoiceRemove(p) ==
    /\ At(p, "remove")
    /\ IF tmpFile # None
       THEN tmpFile' = None /\ UNCHANGED voice
       ELSE SetRes(p, FailureText("FileNotFoundError")) /\ UNCHANGED tmpFile
    /\ Goto(p, "finish")
    /\ UNCHANGED <<config, extractor, payload, result, calls, ack>>

\* process_voice, lines 192-233
VoiceFinish(p) ==
    /\ At(p, "finish")
    /\ \E chttp \in ClassifyOutcomes :
        \E ehttp \in ExtractOutcomesAfter(chttp) :
            Returned(p, process_voice_tail(voice[p].res, msg(p).voice.duration,
                                           chttp, ehttp))

-----------------------------------------------------------------------------
(* The reply as text.  A literal of the source is a run of '#' of the        *)
(* literal's length, a formatted text its characters; an opaque value (an    *)
(* error message, the action's name) counts as one character.                *)

\* The length of the literal before the formatted value of a reply piece.
Pre(seg) ==
    CASE seg = "mensagem_recebida"       -> 61
      [] seg = "erro_acessar_foto"       -> 22
      [] seg = "foto_analisada"          -> 23
      [] seg = "legenda"                 -> 11
      [] seg = "dados_salvos_fila"       -> 53
      [] seg = "erro_analise"            -> 20
      [] seg = "erro_processar_foto"     -> 26
      [] seg = "erro_acessar_audio"      -> 23
      [] seg = "audio_transcrito"        -> 26
      [] seg = "transcricao"             -> 10
      [] seg = "texto"                   -> 10
      [] seg = "intencao"                -> 12
      [] seg = "dados_extraidos"         -> 19
      [] seg = "dados"                   -> 9
      [] seg = "salvo_fila"              -> 33
      [] seg = "erro_transcricao"        -> 24
      [] seg = "erro_processar_audio"    -> 27
      [] seg = "erro_processamento"      -> 25
      [] seg = "comando_nao_reconhecido" -> 8
      [] OTHER                           -> 0

\* The length of the literal after the formatted value of a reply piece.
Post(seg) ==
    CASE seg = "analysis"                -> 2
      [] seg = "legenda"                 -> 1
      [] seg = "transcricao"             -> 3
      [] seg = "texto"                   -> 2
      [] seg = "intencao"                -> 1
      [] seg = "dados_extraidos"         -> 2
      [] seg = "dados"                   -> 5
      [] seg = "registrada"              -> 14
      [] seg = "comando_nao_reconhecido" -> 28
      [] OTHER                           -> 0

\* The length of the command table's text for a command (/status with
\* SUPABASE_URL unset).
CommandReplyLen(command) ==
    CASE command = <<"/", "s", "t", "a", "r", "t">>      -> 492
      [] command = <<"/", "s", "t", "a", "t", "u", "s">> -> 172
      [] command = <<"/", "a", "j", "u", "d", "a">>      -> 64
      [] command = <<"/", "r", "e", "f", "e", "i", "c", "a", "o">> -> 113
      [] command = <<"/", "t", "r", "e", "i", "n", "o">> -> 92
      [] command = <<"/", "a", "g", "u", "a">>           -> 69
      [] command = <<"/", "m", "e", "d", "i", "d", "a", "s">> -> 67
      [] OTHER                                           -> 50

\* json.dumps(d, indent=2): braces and one character per key (the values are
\* not inspected by the code).
Dump(d) == <<"{">> \o Repeat("k", Cardinality(Keys(d))) \o <<"}">>

\* s[:n]
Cut(s, n) == IF Len(s) > n THEN SubSeq(s, 1, n) ELSE s

\* The characters a reply piece formats its value to.
Formatted(piece) ==
    CASE piece.seg = "command_reply" -> Repeat("#", CommandReplyLen(piece.val.chars))
      [] piece.seg = "dados"         -> Cut(Dump(piece.val), DumpLimit)
      [] piece.val.py = "str"        -> piece.val.chars
      [] piece.val.py = "dict"       -> Dump(piece.val)
      [] OTHER                       -> <<>>

RenderPiece(piece) ==
    Repeat("#", Pre(piece.seg)) \o Formatted(piece) \o Repeat("#", Post(piece.seg))

RECURSIVE Render(_)
\* The reply string built from its pieces.
Render(response) ==
    IF response = <<>> THEN <<>>
    ELSE RenderPiece(Head(response)) \o Render(Tail(response))

SendOutcomes == {HttpExc, HttpStatus(400), Http200(None)}

\* send_message that posts without testing the token.
send_message_no_token_test(text, http) ==
    <<Call("sendMessage", "", Str(Cut(Render(text), TelegramLimit)), http)>>

\* send_message that posts a second time when the first post fails.
send_message_retry(text, http) ==
    IF ~TELEGRAM_BOT_TOKEN THEN <<>>
    ELSE IF http.exc \/ http.status # 200
    THEN <<Call("sendMessage", "", Str(Cut(Render(text), TelegramLimit)), http),
           Call("sendMessage", "", Str(Cut(Render(text), TelegramLimit)), http)>>
    ELSE <<Call("sendMessage", "", Str(Cut(Render(text), TelegramLimit)), http)>>

\* send_message that posts the whole text.
send_message_uncut(text, http) ==
    IF ~TELEGRAM_BOT_TOKEN THEN <<>>
    ELSE <<Call("sendMessage", "", Str(Render(text)), http)>>

\* send_message: the call it makes for a reply, with the text it posts
send_message(text, http) ==
    IF ~TELEGRAM_BOT_TOKEN THEN <<>>
    ELSE <<Call("sendMessage", "", Str(Cut(Render(text), TelegramLimit)), http)>>

\* Line 81 with a send_message that has no try/except around its post: a
\* connection error goes to do_POST's except branch.
SendMessage_Reraise(p) ==
    /\ At(p, "send")
    /\ \E http \in SendOutcomes :
        /\ calls' = [calls EXCEPT ![p] = @ \o send_message(result[p].response, http)]
        /\ Goto(p, IF TELEGRAM_BOT_TOKEN /\ http.exc THEN "except" ELSE "ack")
    /\ UNCHANGED <<config, extractor, tmpFile, payload, result, ack, voice>>

\* do_POST, line 81
SendMessage(p) ==
    /\ At(p, "send")
    /\ \E http \in SendOutcomes :
        calls' = [calls EXCEPT ![p] = @ \o send_message(result[p].response, http)]
    /\ Goto(p, "ack")
    /\ UNCHANGED <<config, extractor, tmpFile, payload, result, ack, voice>>

\* do_POST, lines 88-91
Respond200(p) ==
    /\ At(p, "ack")
    /\ ack' = [ack EXCEPT ![p] = 200]
    /\ Goto(p, "done")
    /\ UNCHANGED <<config, extractor, tmpFile, payload, result, calls, voice>>

\* do_POST, lines 96-100
Respond500(p) ==
    /\ At(p, "except")
    /\ ack' = [ack EXCEPT ![p] = 500]
    /\ Goto(p, "done")
    /\ UNCHANGED <<config, extractor, tmpFile, payload, result, calls, voice>>

Next ==
    \E p \in 1..MaxConcurrent :
        \/ DoPost(p)
        \/ ProcessMessageRaises(p)
        \/ HandleCommand(p)
        \/ ProcessPhoto(p)
        \/ ProcessVoice(p)
        \/ VoiceDownload(p)
        \/ VoiceTranscribe(p)
        \/ VoiceExists(p)
        \/ VoiceRemove(p)
        \/ VoiceFinish(p)
        \/ ProcessText(p)
        \/ Fallback(p)
        \/ SendMessage(p)
        \/ Respond200(p)
        \/ Respond500(p)

Spec == Init /\ [][Next]_vars

\* Each step of a handler is sequential code whose calls are bounded by
\* timeouts, so a request that can take a step does.
FairSpec == Spec /\ WF_vars(Next)

SpecConcurrent == InitConcurrent /\ [][Next]_vars

-----------------------------------------------------------------------------
(* extract_structured_meal_data called on a text of its own *)

\* Lines of a description: empty, a bullet alone, a bullet without colon, an
\* item without quantity, with a quantity, with a malformed quantity under the
\* second bullet style, two calorie lines, an item line that also holds
\* calories in capitals, an item with two quantities, a line with two calorie
\* figures, and prose.
ExtractorLines ==
    { <<>>,
      <<"-">>,
      <<"-", " ", "a">>,
      <<"-", " ", "a", ":">>,
      <<"-", " ", "a", ":", " ", "~", "1", "5", "g">>,
      <<Bullet, "b", ":", " ", "x", " ", "g">>,
      <<"~", "6", "5", " ", "k", "c", "a", "l">>,
      <<"T", ":", " ", "7", "k", "c", "a", "l">>,
      <<" ", "-", "c", ":", "2", "g", ":", "9", "K", "C", "A", "L">>,
      <<"-", "d", " ", ":", "0", "7", "g", " ", "3", "g">>,
      <<"3", "k", "c", "a", "l", " ", "4", "k", "c", "a", "l">>,
      <<"p", "r", "a", "t", "o">> }

\* A quantity and a calorie figure of one digit more than int() converts.
OverlongLines ==
    { <<"-", " ", "a", ":", " ">> \o Repeat("1", int_max_str_digits + 1) \o <<"g">>,
      Repeat("1", int_max_str_digits + 1) \o <<" ", "k", "c", "a", "l">> }

\* The texts given to the extractor: one line, or two lines.
ExtractorTexts ==
    ExtractorLines \cup OverlongLines
    \cup { a \o <<"\n">> \o b : a \in ExtractorLines, b \in ExtractorLines }

InitExtractor ==
    /\ InitWith(0, {<<TRUE, TRUE, TRUE, TRUE>>})
    /\ analysis_text \in ExtractorTexts
    /\ structured = Unset

\* structured = extract_structured_meal_data(result["analysis"])
ExtractStructured ==
    /\ structured = Unset
    /\ structured' = extract_structured_meal_data(analysis_text)
    /\ UNCHANGED <<config, tmpFile, pc, payload, result, calls, ack, voice, analysis_text>>

NextExtractor == ExtractStructured

SpecExtractor == InitExtractor /\ [][NextExtractor]_vars

-----------------------------------------------------------------------------
(* Reading a state *)

HasMessage(p) ==
    /\ payload[p].json
    /\ "message" \in Keys(payload[p].data)
    /\ payload[p].data.message.py = "dict"

\* The payload carries a message object whose text is a string.
WellFormed(p) == HasMessage(p) /\ msg(p).text.py = "str"

IsCommand(m) == m.text.py = "str" /\ StartsWith(m.text.chars, "/")

\* process_message has returned a dict for p.
HasResult(p) == pc[p] \in {"send", "ack", "done"} /\ result[p].response # <<>>

Ops(p) == { calls[p][i].op : i \in 1..Len(calls[p]) }

CallsOf(p, op) == { i \in 1..Len(calls[p]) : calls[p][i].op = op }

\* The handler that built a reply, read off the reply's first literal.
HandlerOf(r) ==
    LET first == r.response[1].seg IN
    CASE first \in {"command_reply", "comando_nao_reconhecido"} -> "command"
      [] first \in {"foto_analisada", "erro_acessar_foto", "erro_analise",
                    "erro_processar_foto"} -> "photo"
      [] first \in {"audio_transcrito", "erro_acessar_audio", "erro_transcricao",
                    "erro_processar_audio"} -> "voice"
      [] first \in {"registrada", "erro_processamento"} -> "text"
      [] OTHER -> "fallback"

\* The path process_message took for p's message ("none": not decided yet, or
\* it raised).
Taken(p) ==
    IF pc[p] \in {"download", "transcribe", "exists", "remove", "finish"} THEN "voice"
    ELSE IF HasResult(p) THEN HandlerOf(result[p])
    ELSE "none"

Segs(r) == { r.response[i].seg : i \in 1..Len(r.response) }

\* The chat endpoint's answer is a failure of the call: an exception, or a
\* status other than 200.
HttpFailed(http) == http.exc \/ http.status # 200

-----------------------------------------------------------------------------
(* C1: a message that is no command is handled by exactly one path, chosen   *)
(* Photo > Voice > Text > fallback.                                          *)

\* C1 as stated: whenever a photo is present the photo path is taken, the
\* voice path whenever a voice note and no photo is present, the text path
\* whenever only text is present, the fallback when nothing is present.
C1_UnconditionalPriority ==
    \A p \in DOMAIN pc :
        (WellFormed(p) /\ ~IsCommand(msg(p)) /\ Taken(p) # "none") =>
            Taken(p) = (IF Truthy(msg(p).photo) THEN "photo"
                        ELSE IF Truthy(msg(p).voice) THEN "voice"
                        ELSE IF Truthy(msg(p).text) THEN "text"
                        ELSE "fallback")

PhotoEnabled == IMPORTS_OK /\ GEMINI_API_KEY

GroqEnabled == IMPORTS_OK /\ GROQ_API_KEY

\* C1 amended: the priority Photo > Voice > Text > fallback holds among the
\* paths that are enabled (processors imported and the path's API key set):
\* a photo on an enabled photo path is handled as a photo whatever else the
\* message holds, a path whose key is missing is skipped for the next one.
C1_PriorityAmongEnabled ==
    \A p \in DOMAIN pc :
        (WellFormed(p) /\ ~IsCommand(msg(p)) /\ Taken(p) # "none") =>
            Taken(p) = (IF Truthy(msg(p).photo) /\ PhotoEnabled THEN "photo"
                        ELSE IF Truthy(msg(p).voice) /\ GroqEnabled THEN "voice"
                        ELSE IF Truthy(msg(p).text) /\ GroqEnabled THEN "text"
                        ELSE "fallback")

\* A message with a photo, a voice note and a caption was handled as a photo.
C1_Witness ==
    \E p \in DOMAIN pc :
        /\ pc[p] = "done" /\ WellFormed(p) /\ Taken(p) = "photo"
        /\ Truthy(msg(p).voice) /\ Truthy(msg(p).text)

-----------------------------------------------------------------------------
(* C8: a command is answered from the command table and nothing else runs.   *)

\* C8: for a command message (text beginning with '/'), with or without a
\* photo or a voice note, the reply is handle_command's and no getFile,
\* download, transcription, vision, classification or extraction call is made.
C8_CommandStops ==
    \A p \in DOMAIN pc :
        (HasMessage(p) /\ IsCommand(msg(p))) =>
            /\ Ops(p) \subseteq {"sendMessage"}
            /\ Taken(p) \in {"none", "command"}
            /\ pc[p] \notin {"download", "transcribe", "exists", "remove", "finish", "except"}

\* A command that came with a photo and a voice note was answered.
C8_Witness ==
    \E p \in DOMAIN pc :
        /\ pc[p] = "done" /\ HasMessage(p) /\ IsCommand(msg(p))
        /\ Truthy(msg(p).photo) /\ Truthy(msg(p).voice)
        /\ Taken(p) = "command" /\ ack[p] = 200

-----------------------------------------------------------------------------
(* C7: empty or whitespace-only text never reaches a collaborator.           *)

\* C7: a message without photo and voice whose text is empty after trimming
\* makes no classification or extraction call, and the text path is taken
\* only for text that is non-empty after trimming.
C7_EmptyInputShortCircuits ==
    \A p \in DOMAIN pc :
        WellFormed(p) =>
            /\ (/\ Strip(msg(p).text.chars) = <<>>
                /\ ~Truthy(msg(p).photo) /\ ~Truthy(msg(p).voice))
               => Ops(p) \cap {"classify", "extract"} = {}
            /\ Taken(p) = "text" => Strip(msg(p).text.chars) # <<>>

-----------------------------------------------------------------------------
(* C6: no collaborator failure escapes process_message.                      *)

\* C6: whatever getFile, the download, transcription, vision, classification
\* and extraction answer or raise, process_message returns a dict with a reply
\* and a data entry for every well-formed message; do_POST's except branch is
\* reached only by a body that is no JSON or a malformed message.
C6_NoFailureEscapes ==
    \A p \in DOMAIN pc :
        /\ (pc[p] = "except" \/ ack[p] = 500) => ~WellFormed(p)
        /\ (WellFormed(p) /\ pc[p] \in {"send", "ack", "done"}) =>
               /\ result[p].response # <<>>
               /\ result[p].data.py \in {"None", "dict"}

\* Classification raised inside classify_intent (null content) and the text
\* path returned its error reply.
C6_Witness ==
    \E p \in DOMAIN pc :
        /\ pc[p] = "done" /\ WellFormed(p) /\ ack[p] = 200
        /\ "erro_processamento" \in Segs(result[p])
        /\ result[p].data = None
        /\ \E i \in CallsOf(p, "classify") : calls[p][i].http.body = None

-----------------------------------------------------------------------------
(* Reading a result *)

\* data['extracted'] of a result, None when there is none.
ExtractedOf(r) == IF r.data.py = "dict" THEN Get(r.data, "extracted", None) ELSE None

\* A dict with success = False.
IsFailureDict(d) == d.py = "dict" /\ Get(d, "success", TRUE) = FALSE

\* A dict that holds fields of a record (anything but success, error, raw).
Populated(d) == d.py = "dict" /\ Keys(d) \ {"success", "error", "raw"} # {}

ErrorSegs ==
    { "erro_acessar_foto", "erro_analise", "erro_processar_foto", "erro_acessar_audio",
      "erro_transcricao", "erro_processar_audio", "erro_processamento" }

SavedSegs == {"registrada", "salvo_fila", "dados_salvos_fila"}

\* The reply shows an error: an error literal, or the dump of a failure dict.
RendersError(r) ==
    \E i \in 1..Len(r.response) :
        \/ r.response[i].seg \in ErrorSegs
        \/ /\ r.response[i].seg \in {"dados", "dados_extraidos"}
           /\ IsFailureDict(r.response[i].val)

\* The result carries success = false and an error string.
CarriesFailure(r) ==
    \/ r.data = None /\ Segs(r) \cap ErrorSegs # {}
    \/ IsFailureDict(ExtractedOf(r)) /\ Get(ExtractedOf(r), "error", "") # ""

\* The extraction call's answer is a failure of the call: an exception, a status
\* other than 200, or content that is no JSON.
ExtractionFailed(http) == HttpFailed(http) \/ ~http.body.valid

-----------------------------------------------------------------------------
(* C3: a failed classification call is reported as a failure.                *)

\* C3: when the classification call fails, the label is other, no extraction
\* is called, and the result carries success=false with a non-empty error and
\* no populated record.
C3_ClassificationFailureReported ==
    \A p \in DOMAIN pc :
        (HasResult(p) /\ \E i \in CallsOf(p, "classify") : HttpFailed(calls[p][i].http)) =>
            /\ "extract" \notin Ops(p)
            /\ result[p].data.py = "dict" => result[p].data.intent = Str(s_other)
            /\ ~Populated(ExtractedOf(result[p]))
            /\ CarriesFailure(result[p])

-----------------------------------------------------------------------------
(* C4: a failed extraction call yields a failure without a record.           *)

\* C4: when the extraction call for meal, workout or hydration fails (exception,
\* status other than 200, content that is no JSON), the extraction result held
\* by the message's result is success=false with a non-empty error and no
\* record field; and no result holds success=false together with record fields.
C4_FailedExtractionHasNoRecord ==
    \A p \in DOMAIN pc :
        HasResult(p) =>
            LET x == ExtractedOf(result[p]) IN
            /\ (\E i \in CallsOf(p, "extract") : ExtractionFailed(calls[p][i].http)) =>
                   /\ IsFailureDict(x)
                   /\ Get(x, "error", "") # ""
                   /\ ~Populated(x)
            /\ IsFailureDict(x) => ~Populated(x)

\* A workout extraction answered 500 and the result holds the failure.
C4_Witness ==
    \E p \in DOMAIN pc :
        /\ pc[p] = "done"
        /\ \E i \in CallsOf(p, "extract") :
              calls[p][i].schema = "workout" /\ calls[p][i].http.status = 500
        /\ IsFailureDict(ExtractedOf(result[p]))

-----------------------------------------------------------------------------
(* C9: an extraction answer of the wrong shape is a failure.                 *)

\* C9: when the extraction call answers JSON that is no object with the field
\* set of the requested schema, or no JSON at all, the result is success=false
\* with an error and holds no field of a record.
C9_MalformedExtractionRejected ==
    \A p \in DOMAIN pc :
        HasResult(p) =>
            \A i \in CallsOf(p, "extract") :
                LET http == calls[p][i].http
                    x    == ExtractedOf(result[p])
                IN  (/\ ~HttpFailed(http)
                     /\ \/ ~http.body.valid
                        \/ Keys(http.body.value) # SchemaFields(calls[p][i].schema))
                    => /\ IsFailureDict(x)
                       /\ Get(x, "error", "") # ""
                       /\ ~Populated(x)

-----------------------------------------------------------------------------
(* C10: a failure is shown to the user as an error.                          *)

\* Some step of p's pipeline failed: classification, extraction (failed or
\* malformed), transcription, or vision.
SomeStepFailed(p) ==
    \/ \E i \in CallsOf(p, "classify") : HttpFailed(calls[p][i].http)
    \/ \E i \in CallsOf(p, "extract") :
          \/ ExtractionFailed(calls[p][i].http)
          \/ Keys(calls[p][i].http.body.value) # SchemaFields(calls[p][i].schema)
    \/ \E i \in CallsOf(p, "transcribe") : HttpFailed(calls[p][i].http)
    \/ \E i \in CallsOf(p, "vision") :
          \/ HttpFailed(calls[p][i].http)
          \/ calls[p][i].http.body.candidates = <<>>

\* C10: on a failed result the reply shows the error string, and shows neither
\* a record nor a 'registered' or 'saved' message.
C10_FailureRenderedAsError ==
    \A p \in DOMAIN pc :
        (HasResult(p) /\ SomeStepFailed(p)) =>
            /\ RendersError(result[p])
            /\ Segs(result[p]) \cap SavedSegs = {}
            /\ \A i \in 1..Len(result[p].response) :
                   result[p].response[i].seg \in {"dados", "dados_extraidos"} =>
                       ~Populated(result[p].response[i].val)

-----------------------------------------------------------------------------
(* C5: every POST is answered.                                               *)

-----------------------------------------------------------------------------
(* C2: concurrent invocations do not affect each other.                      *)

\* C2: an invocation on the voice path whose download succeeded uploads its
\* own voice note for transcription and gets the result transcribe_audio
\* gives for that note and the endpoint's answer, as it does when run alone.
C2_Isolation ==
    \A p \in DOMAIN pc :
        (/\ pc[p] \in {"finish", "send", "ack", "done"}
         /\ \E i \in CallsOf(p, "download") : calls[p][i].http.status = 200
         /\ Taken(p) = "voice") =>
            \E i \in CallsOf(p, "transcribe") :
                /\ calls[p][i].arg = Audio(p)
                /\ voice[p].res = transcribe_audio(Audio(p), calls[p][i].http)

-----------------------------------------------------------------------------
(* C11: the label is one of the seven intents.                               *)

\* The result of p records an intent (text and voice paths).
HasIntent(p) ==
    HasResult(p) /\ result[p].data.py = "dict" /\ "intent" \in Keys(result[p].data)

\* The word the classification endpoint answered, trimmed and lower-cased
\* ("other" when the call failed).
AnsweredWord(http) ==
    IF HttpFailed(http) THEN s_other ELSE Lower(Strip(http.body.chars))

-----------------------------------------------------------------------------
(* C12: extraction runs for meal, workout and hydration, and only for them.  *)

RecordLabels == {s_meal, s_workout, s_hydration}

\* The text T the pipeline classified: the message text on the text path, the
\* transcription on the voice path.
InputText(p) == IF Taken(p) = "voice" THEN voice[p].res.text ELSE msg(p).text

\* The text a result keeps as the raw description of the input.
RawDescription(d) == IF d.type = "voice" THEN d.transcription ELSE d.text

\* C12: the extraction collaborator is called exactly when the label is meal,
\* workout or hydration, once, with the schema of that label and the input
\* text; for question, greeting, other and supplement there is no extraction
\* call and the result is a success (the 'saved' reply, no error) whose record
\* is None and whose raw description is the input text.
C12_ExtractionIffRecordLabel ==
    \A p \in DOMAIN pc :
        /\ "extract" \in Ops(p) => HasIntent(p)
        /\ HasIntent(p) =>
              LET d      == result[p].data
                  intent == d.intent.chars
              IN  /\ Cardinality(CallsOf(p, "extract")) =
                         (IF intent \in RecordLabels THEN 1 ELSE 0)
                  /\ \A i \in CallsOf(p, "extract") :
                         /\ \/ intent = s_meal /\ calls[p][i].schema = "meal"
                            \/ intent = s_workout /\ calls[p][i].schema = "workout"
                            \/ intent = s_hydration /\ calls[p][i].schema = "hydration"
                         /\ calls[p][i].arg = InputText(p)
                  /\ intent \notin RecordLabels =>
                         /\ d.extracted = None
                         /\ RawDescription(d) = InputText(p)
                         /\ Segs(result[p]) \cap ErrorSegs = {}
                         /\ "salvo_fila" \in Segs(result[p])

\* A text classified as supplement was answered without an extraction call.
C12_Witness ==
    \E p \in DOMAIN pc :
        /\ pc[p] = "done" /\ HasIntent(p)
        /\ result[p].data.intent = Str(s_supplement)
        /\ "classify" \in Ops(p) /\ "extract" \notin Ops(p)
        /\ result[p].data.extracted = None

-----------------------------------------------------------------------------
(* C13: a vision description goes through the regex extractor only.          *)

\* The vision endpoint answered with a description.
VisionSucceeded(http) ==
    ~HttpFailed(http) /\ http.body.candidates # <<>>

\* C13: on the photo path a successful vision description is always given to
\* extract_structured_meal_data, whose record is the result's structured data
\* and holds the whole description as analise_completa; no classification and
\* no JSON extraction call is made for the message.
C13_PhotoUsesRegexExtractor ==
    \A p \in DOMAIN pc :
        (HasResult(p) /\ Taken(p) = "photo") =>
            /\ Ops(p) \cap {"classify", "extract"} = {}
            /\ \A i \in CallsOf(p, "vision") :
                   VisionSucceeded(calls[p][i].http) =>
                       LET prose == calls[p][i].http.body.candidates[1]
                           d     == result[p].data
                       IN  /\ d.py = "dict"
                           /\ d.type = "meal_photo"
                           /\ d.structured = extract_structured_meal_data(prose).value
                           /\ d.structured.analise_completa = Str(prose)
                           /\ d.analysis = Str(prose)

\* A photo was described by the vision endpoint and the extractor found an
\* item in the description.
C13_Witness ==
    \E p \in DOMAIN pc :
        /\ pc[p] = "done" /\ Taken(p) = "photo"
        /\ \E i \in CallsOf(p, "vision") : VisionSucceeded(calls[p][i].http)
        /\ result[p].data.py = "dict"
        /\ Len(result[p].data.structured.alimentos) = 1

-----------------------------------------------------------------------------
(* C14: no collaborator call is repeated.                                    *)

CollaboratorOps ==
    {"getFile", "download", "transcribe", "vision", "classify", "extract", "sendMessage"}

\* C14: within one invocation each collaborator operation (getFile, media
\* download, transcription, vision, classification, extraction, reply send) is
\* called at most once, also after a call that failed or timed out.
C14_NoRetry ==
    \A p \in DOMAIN pc :
        /\ Ops(p) \subseteq CollaboratorOps
        /\ \A op \in CollaboratorOps : Cardinality(CallsOf(p, op)) <= 1

\* The transcription call and the reply send both failed, and the request
\* ended with one call of each.
C14_Witness ==
    \E p \in DOMAIN pc :
        /\ pc[p] = "done"
        /\ \E i \in CallsOf(p, "transcribe") : HttpFailed(calls[p][i].http)
        /\ \E i \in CallsOf(p, "sendMessage") : HttpFailed(calls[p][i].http)
        /\ Cardinality(CallsOf(p, "transcribe")) = 1
        /\ Cardinality(CallsOf(p, "sendMessage")) = 1

-----------------------------------------------------------------------------
(* C15: an invocation runs to completion before anything is answered.        *)

\* process_message has returned its result for p.
Completed(p) == p \in DOMAIN pc /\ HasResult(p)

\* C15: every invocation of process_message on a message eventually returns a
\* result, a success or a structured failure {response, data}, whatever the
\* collaborators answer; and neither the reply nor the acknowledgment of a
\* message is produced before process_message has returned.
C15_RunsToCompletion ==
    /\ \A p \in 1..MaxConcurrent : (At(p, "process") /\ WellFormed(p)) ~> Completed(p)
    /\ [](\A p \in DOMAIN pc :
            /\ (WellFormed(p) /\ ("sendMessage" \in Ops(p) \/ ack[p] # 0)) => HasResult(p)
            /\ HasResult(p) => /\ result[p].response # <<>>
                               /\ result[p].data.py \in {"None", "dict"})

\* A voice message whose transcription failed was answered after
\* process_voice returned its failure.
C15_Witness ==
    \E p \in DOMAIN pc :
        /\ pc[p] = "done" /\ WellFormed(p) /\ Taken(p) = "voice"
        /\ \E i \in CallsOf(p, "transcribe") : HttpFailed(calls[p][i].http)
        /\ "erro_transcricao" \in Segs(result[p])
        /\ ack[p] = 200

-----------------------------------------------------------------------------
(* C16: echoed text is cut to a preview.                                     *)

\* The original text a reply segment echoes: the classified text (message text
\* or transcription) for 'Texto', the caption for 'Legenda'.
EchoedOriginal(p, seg) ==
    IF seg = "legenda" THEN msg(p).text.chars ELSE InputText(p).chars

\* C16: a reply echoes an original text (the user's text, a transcription, a
\* photo caption) as its first 100 characters followed by '...' when the text
\* is longer than 100 characters, and unchanged when it is not.
C16_EchoIsPreview ==
    \A p \in DOMAIN pc :
        HasResult(p) =>
            \A i \in 1..Len(result[p].response) :
                result[p].response[i].seg \in {"texto", "transcricao", "legenda"} =>
                    LET shown == result[p].response[i].val.chars
                        orig  == EchoedOriginal(p, result[p].response[i].seg)
                    IN  shown = (IF Len(orig) > PreviewLen
                                 THEN SubSeq(orig, 1, PreviewLen) \o <<".", ".", ".">>
                                 ELSE orig)

-----------------------------------------------------------------------------
(* C17: the text sent is cut to 4000 characters.                             *)

\* C17: every text handed to the transport's send call has at most 4000
\* characters: it is the first 4000 characters of the reply process_message
\* produced when that reply is longer, and the reply unchanged when it is not.
C17_SentTextCut ==
    \A p \in DOMAIN pc :
        \A i \in CallsOf(p, "sendMessage") :
            LET sent  == calls[p][i].arg.chars
                reply == Render(result[p].response)
            IN  /\ Len(sent) <= TelegramLimit
                /\ Len(reply) <= TelegramLimit => sent = reply
                /\ Len(reply) > TelegramLimit => sent = SubSeq(reply, 1, TelegramLimit)

\* A reply longer than 4000 characters was sent as 4000 characters.
C17_Witness ==
    \E p \in DOMAIN pc :
        /\ pc[p] = "done"
        /\ Len(Render(result[p].response)) > TelegramLimit
        /\ \E i \in CallsOf(p, "sendMessage") : Len(calls[p][i].arg.chars) = TelegramLimit

-----------------------------------------------------------------------------
(* C18: media that cannot be fetched is a failure without analysis.          *)

\* getFile gave no file (exception, status other than 200, ok false), or the
\* download of the file did not answer 200.
MediaUnavailable(p) ==
    \/ \E i \in CallsOf(p, "getFile") :
          HttpFailed(calls[p][i].http) \/ ~Get(calls[p][i].http.body, "ok", FALSE)
    \/ \E i \in CallsOf(p, "download") : HttpFailed(calls[p][i].http)

\* C18: when the photo or the voice note of a message cannot be resolved to
\* bytes, no vision and no transcription call is made for the message, and
\* its result is an error reply with data None.
C18_MediaUnavailableIsFailure ==
    \A p \in DOMAIN pc :
        MediaUnavailable(p) =>
            /\ Ops(p) \cap {"vision", "transcribe", "classify", "extract"} = {}
            /\ HasResult(p) =>
                   /\ result[p].data = None
                   /\ Segs(result[p]) \cap ErrorSegs # {}
                   /\ Segs(result[p]) \cap SavedSegs = {}

\* A voice note whose download answered 404 and a photo whose getFile failed:
\* either was answered with an error.
C18_Witness ==
    \E p \in DOMAIN pc :
        /\ pc[p] = "done" /\ MediaUnavailable(p)
        /\ Taken(p) = "voice"
        /\ \E i \in CallsOf(p, "download") : calls[p][i].http.status = 404
        /\ result[p].data = None

-----------------------------------------------------------------------------
(* C19: the regex extractor cannot fail.                                     *)

\* The extractor has run on analysis_text.
Extracted == structured # Unset

\* C19: for every text extract_structured_meal_data returns a meal record and
\* never raises; absent data gives quantity 0, total calories 0 and an empty
\* item list.
C19_ExtractorNeverFails ==
    Extracted =>
        /\ ~structured.raised
        /\ Keys(structured.value) = {"alimentos", "total_calorias_estimada", "analise_completa"}

-----------------------------------------------------------------------------
(* C20: a text without bullet lines has no items.                            *)

\* The lines of analysis_text, stripped.
StrippedLines ==
    LET lines == Split(analysis_text, "\n") IN [i \in 1..Len(lines) |-> Strip(lines[i])]

\* No line of analysis_text starts with a bullet.
ZeroBulletLines ==
    \A i \in 1..Len(StrippedLines) :
        ~StartsWith(StrippedLines[i], "-") /\ ~StartsWith(StrippedLines[i], Bullet)

\* The lines that hold a calorie figure: digits, optional whitespace, 'kcal' in
\* any case.
KcalLines == { i \in 1..Len(StrippedLines) : KcalStarts(Lower(StrippedLines[i])) # {} }

\* The first calorie figure of line i: the integer of the leftmost match of
\* digits, optional whitespace, 'kcal'.
KcalFigure(i) ==
    LET low   == Lower(StrippedLines[i])
        start == Min(KcalStarts(low))
    IN  ParseInt(SubSeq(low, start, DigitRunEnd(low, start)))

\* C20 as stated: for a text without bullet lines the extractor returns an
\* empty item sequence and total calories 0.
C20_NoBulletsNoItemsNoCalories ==
    (Extracted /\ ZeroBulletLines /\ ~structured.raised) =>
        /\ structured.value.alimentos = <<>>
        /\ structured.value.total_calorias_estimada = 0

\* C20 amended: for a text without bullet lines the record the extractor
\* returns has an empty item sequence; its total calories are 0 when no line
\* holds a calorie figure, and otherwise the first figure of one of the lines
\* that hold one.
C20_NoBulletsNoItems ==
    (Extracted /\ ZeroBulletLines /\ ~structured.raised) =>
        /\ structured.value.alimentos = <<>>
        /\ IF KcalLines = {}
           THEN structured.value.total_calorias_estimada = 0
           ELSE structured.value.total_calorias_estimada
                    \in { KcalFigure(i) : i \in KcalLines }

\* A text of two calorie lines and no bullet gave no item and the figure of
\* one of the two lines.
C20_Witness ==
    /\ Extracted /\ ZeroBulletLines /\ ~structured.raised
    /\ Cardinality(KcalLines) = 2
    /\ structured.value.alimentos = <<>>
    /\ structured.value.total_calorias_estimada = 7

-----------------------------------------------------------------------------
(* C21: the extractor reproduces a record rendered in the canonical format.  *)

DigitChar(d) ==
    CASE d = 0 -> "0" [] d = 1 -> "1" [] d = 2 -> "2" [] d = 3 -> "3" [] d = 4 -> "4"
      [] d = 5 -> "5" [] d = 6 -> "6" [] d = 7 -> "7" [] d = 8 -> "8" [] OTHER -> "9"

RECURSIVE IntToStr(_)
\* The decimal digits of a natural number.
IntToStr(n) ==
    IF n < 10 THEN <<DigitChar(n)>> ELSE IntToStr(n \div 10) \o <<DigitChar(n % 10)>>

\* The canonical line of an item: '- name: Ng'.
CanonicalLine(item) ==
    <<"-", " ">> \o item.nome \o <<":", " ">> \o IntToStr(item.quantidade_g) \o <<"g">>

\* The canonical text of a record's items: one line per item, in order.
RenderItems(items) == Join([i \in 1..Len(items) |-> CanonicalLine(items[i])], "\n")

NamesAndQuantities(items) ==
    [i \in 1..Len(items) |-> <<items[i].nome, items[i].quantidade_g>>]

\* C21: when the items of the record extracted from a text are rendered one
\* per line as '- name: Ng', in order, the extractor applied to the rendered
\* text returns items with the same names and the same gram quantities in
\* the same order.
C21_RoundTrip ==
    (Extracted /\ ~structured.raised) =>
        LET items == structured.value.alimentos
            again == extract_structured_meal_data(RenderItems(items))
        IN  /\ ~again.raised
            /\ NamesAndQuantities(again.value.alimentos) = NamesAndQuantities(items)

\* A text of two items that is not in the canonical format (a tilde before the
\* first quantity, no space after the second marker) was extracted.
C21_Witness ==
    /\ Extracted /\ ~structured.raised
    /\ Len(structured.value.alimentos) = 2
    /\ structured.value.alimentos[1].quantidade_g = 15
    /\ structured.value.alimentos[2].quantidade_g = 2
    /\ RenderItems(structured.value.alimentos) # analysis_text

-----------------------------------------------------------------------------
(* C22: the total is the first calorie figure of the text.                   *)

\* C22: the record's total calories are the integer of the first occurrence,
\* over all lines in order and in any case, of an integer followed after
\* optional whitespace by 'kcal'; occurrences further on in the same line or
\* on later lines do not change it; it is 0 when there is no occurrence.
C22_FirstCalorieFigure ==
    (Extracted /\ ~structured.raised) =>
        structured.value.total_calorias_estimada =
            (IF KcalLines = {} THEN 0 ELSE KcalFigure(Min(KcalLines)))

-----------------------------------------------------------------------------
(* C23: which lines are items, and what an item holds.                       *)

\* The line begins with a bullet marker.
Marked(line) == StartsWith(line, "-") \/ StartsWith(line, Bullet)

Colons(s) == { i \in 1..Len(s) : s[i] = ":" }

\* The lines of analysis_text that, trimmed, begin with a marker and hold a
\* colon after it.
ItemLineSet ==
    { i \in 1..Len(StrippedLines) :
        Marked(StrippedLines[i]) /\ Colons(Tail(StrippedLines[i])) # {} }

\* The k-th smallest member of a set of numbers.
Nth(S, k) == CHOOSE i \in S : Cardinality({ j \in S : j < i }) = k - 1

\* The trimmed text between the marker and the first colon.
NameOf(line) ==
    LET body == Strip(Tail(line)) IN Strip(SubSeq(body, 1, Min(Colons(body)) - 1))

\* The trimmed text after the first colon.
NoteOf(line) ==
    LET body == Strip(Tail(line)) IN Strip(SubSeq(body, Min(Colons(body)) + 1, Len(body)))

\* The first integer of a note that is immediately followed by 'g': the digits
\* that end at the first 'g' preceded by a digit; 0 when there is none.
GramsOf(note) ==
    LET units == { j \in 2..Len(note) : note[j] = "g" /\ IsDigit(note[j - 1]) } IN
    IF units = {} THEN 0
    ELSE LET j     == Min(units)
             first == Min({ i \in 1..(j - 1) : \A k \in i..(j - 1) : IsDigit(note[k]) })
         IN  ParseInt(SubSeq(note, first, j - 1))

\* C23: the items of the record are those of the lines that, trimmed, begin
\* with '-' or the bullet and hold a colon after the marker, and of no other
\* line (a bullet line without colon gives no item); an item's name is the
\* trimmed text before the first colon, its note the whole trimmed text after
\* the first colon with later colons kept, its quantity the first integer
\* immediately followed by 'g' in the note, whatever precedes the digits, and
\* 0 when there is none.
C23_ItemOfLine ==
    (Extracted /\ ~structured.raised) =>
        LET items == structured.value.alimentos IN
        /\ Len(items) = Cardinality(ItemLineSet)
        /\ \A k \in 1..Len(items) :
               LET line == StrippedLines[Nth(ItemLineSet, k)] IN
               items[k] = [nome |-> NameOf(line),
                           quantidade_g |-> GramsOf(NoteOf(line)),
                           descricao |-> NoteOf(line)]

\* A bullet line without colon followed by an item line with a second colon
\* gave one item whose note keeps the second colon.
C23_Witness ==
    /\ Extracted /\ ~structured.raised
    /\ \E i \in 1..Len(StrippedLines) : Marked(StrippedLines[i]) /\ i \notin ItemLineSet
    /\ structured.value.alimentos =
          << [nome |-> <<"c">>, quantidade_g |-> 2,
              descricao |-> <<"2", "g", ":", "9", "K", "C", "A", "L">>] >>

-----------------------------------------------------------------------------
(* C24: items keep the order of their lines; the description is kept whole.  *)

\* C24: the record has one item per item line, the k-th item being that of
\* the k-th item line (two equal lines give two items, and no item is moved),
\* and its analise_completa is the input text, character for character.
C24_ItemsInLineOrder ==
    (Extracted /\ ~structured.raised) =>
        LET items == structured.value.alimentos IN
        /\ DOMAIN items = 1..Cardinality(ItemLineSet)
        /\ \A k \in DOMAIN items :
               /\ items[k].nome = NameOf(StrippedLines[Nth(ItemLineSet, k)])
               /\ items[k].descricao = NoteOf(StrippedLines[Nth(ItemLineSet, k)])
        /\ \A k, l \in DOMAIN items : k < l => Nth(ItemLineSet, k) < Nth(ItemLineSet, l)
        /\ structured.value.analise_completa = Str(analysis_text)

\* Two item lines whose names are not in alphabetical order gave two items in
\* the order of the lines, and the text kept its line break.
C24_Witness ==
    /\ Extracted /\ ~structured.raised
    /\ Len(structured.value.alimentos) = 2
    /\ structured.value.alimentos[1].nome = <<"b">>
    /\ structured.value.alimentos[2].nome = <<"a">>
    /\ structured.value.alimentos[2].quantidade_g = 15
    /\ structured.value.analise_completa.chars = analysis_text

-----------------------------------------------------------------------------
(* C25: items and calories are read independently of each other.             *)

\* analysis_text with the bullet marker of every marked line removed.
Unmarked ==
    Join([i \in 1..Len(StrippedLines) |->
             IF Marked(StrippedLines[i]) THEN Tail(StrippedLines[i])
             ELSE StrippedLines[i]], "\n")

\* analysis_text reduced to its item lines.
ItemLinesOnly ==
    Join([k \in 1..Cardinality(ItemLineSet) |-> StrippedLines[Nth(ItemLineSet, k)]], "\n")

\* C25: a line that is an item line and also holds a calorie figure gives an
\* item and gives its figure to the total (it is the total when no later line
\* holds a figure); the total is the same when the bullet markers are taken
\* away, and the item list is the same when every line that is no item line,
\* calorie lines included, is taken away.
C25_IndependentPasses ==
    (Extracted /\ ~structured.raised) =>
        LET rec == structured.value IN
        /\ \A i \in ItemLineSet \cap KcalLines :
               /\ \E k \in 1..Len(rec.alimentos) :
                      rec.alimentos[k].descricao = NoteOf(StrippedLines[i])
               /\ (\A j \in KcalLines : j <= i) =>
                      rec.total_calorias_estimada = KcalFigure(i)
        /\ extract_structured_meal_data(Unmarked).value.total_calorias_estimada
               = rec.total_calorias_estimada
        /\ extract_structured_meal_data(ItemLinesOnly).value.alimentos = rec.alimentos

\* A calorie line followed by an item line that holds a calorie figure gave
\* the item and the item line's figure as the total.
C25_Witness ==
    /\ Extracted /\ ~structured.raised
    /\ Cardinality(KcalLines) = 2
    /\ ItemLineSet = {2}
    /\ 2 \in KcalLines
    /\ Len(structured.value.alimentos) = 1
    /\ structured.value.alimentos[1].quantidade_g = 2
    /\ structured.value.total_calorias_estimada = 9

-----------------------------------------------------------------------------
(* C26: the steps of the voice path.                                         *)

\* The place of an operation in the voice path.
StepRank(op) ==
    CASE op = "getFile"    -> 1
      [] op = "download"   -> 2
      [] op = "transcribe" -> 3
      [] op = "classify"   -> 4
      [] op = "extract"    -> 5
      [] OTHER             -> 6

\* transcribe_from_telegram gave p a failure, or the transcription call of p
\* failed.
TranscriptionFailed(p) ==
    \/ voice[p].res.py = "dict" /\ ~voice[p].res.success
    \/ \E i \in CallsOf(p, "transcribe") : HttpFailed(calls[p][i].http)

\* C26: on the voice path the calls are made in the order getFile, download,
\* transcription, classification, extraction, each after the one before it;
\* classification is called only after a transcription call that succeeded,
\* with the text that call returned, and extraction with the same text; when
\* transcription fails neither classification nor extraction is called and
\* the data of the result is None.
C26_VoiceStepsInOrder ==
    \A p \in DOMAIN pc :
        Taken(p) = "voice" =>
            /\ "vision" \notin Ops(p)
            /\ \A i, j \in 1..Len(calls[p]) :
                   i < j => StepRank(calls[p][i].op) < StepRank(calls[p][j].op)
            /\ \A i \in 2..Len(calls[p]) :
                   calls[p][i].op \in {"download", "transcribe", "classify", "extract"} =>
                       StepRank(calls[p][i - 1].op) = StepRank(calls[p][i].op) - 1
            /\ \A i \in CallsOf(p, "classify") \cup CallsOf(p, "extract") :
                   \E j \in CallsOf(p, "transcribe") :
                       /\ j < i
                       /\ ~HttpFailed(calls[p][j].http)
                       /\ calls[p][i].arg = Get(calls[p][j].http.body, "text", Str(<<>>))
            /\ TranscriptionFailed(p) =>
                   /\ Ops(p) \cap {"classify", "extract"} = {}
                   /\ HasResult(p) => result[p].data = None

\* A voice note was resolved, downloaded, transcribed, classified as a meal
\* and extracted, in that order.
C26_Witness ==
    \E p \in DOMAIN pc :
        /\ pc[p] = "done" /\ Taken(p) = "voice"
        /\ Len(calls[p]) >= 5
        /\ [i \in 1..5 |-> calls[p][i].op] =
              <<"getFile", "download", "transcribe", "classify", "extract">>
        /\ calls[p][4].arg = Str(Transcript(Audio(p)))
        /\ result[p].data.intent = Str(s_meal)

-----------------------------------------------------------------------------
(* C27: the acknowledgment of a request.                                     *)

\* The send attempt of p has finished: the post was made, or send_message
\* returned for want of a token.
SendAttempted(p) ==
    pc[p] \in {"ack", "done"} /\ (TELEGRAM_BOT_TOKEN => "sendMessage" \in Ops(p))

\* C27: a request whose payload carries a well-formed message ends with the
\* acknowledgment 200, whatever the collaborators answered and whether or not
\* the reply could be sent (token missing included); the acknowledgment of a
\* message is written only once process_message has returned and the send
\* attempt has finished; the acknowledgment is 500 only when the payload is
\* no JSON, its message is no object, or handling the message raised.
C27_AckAfterReply ==
    \A p \in DOMAIN pc :
        /\ (WellFormed(p) /\ pc[p] = "done") => ack[p] = 200
        /\ WellFormed(p) => pc[p] # "except"
        /\ (HasMessage(p) /\ ack[p] = 200) => (HasResult(p) /\ SendAttempted(p))
        /\ pc[p] # "done" => ack[p] = 0
        /\ ack[p] = 500 =>
               \/ ~payload[p].json
               \/ "message" \in Keys(payload[p].data) /\ ~HasMessage(p)
               \/ HasMessage(p) /\ Route(msg(p)) = "raise" /\ ~HasResult(p)

\* Transcription failed and the reply could not be posted: the request was
\* acknowledged with 200.
C27_Witness ==
    \E p \in DOMAIN pc :
        /\ pc[p] = "done" /\ WellFormed(p) /\ ack[p] = 200
        /\ SomeStepFailed(p)
        /\ \E i \in CallsOf(p, "sendMessage") : calls[p][i].http.exc

-----------------------------------------------------------------------------
(* C28: a path needs its credential and the processors.                      *)

\* C28: the photo path is taken only with the processors imported and
\* GEMINI_API_KEY set, the voice and text paths only with the processors
\* imported and GROQ_API_KEY set.  With GROQ_API_KEY unset no transcription,
\* classification or extraction call is made, and a message that is no
\* command and has no photo gets the fallback reply with data None.  With
\* GEMINI_API_KEY unset no vision call is made, and a message that is no
\* command and has a photo is handled by the voice path when it has a voice
\* note and that path is enabled, else by the text path when it has text and
\* that path is enabled, else by the fallback.
C28_PathNeedsCredential ==
    \A p \in DOMAIN pc :
        /\ Taken(p) = "photo" => (IMPORTS_OK /\ GEMINI_API_KEY)
        /\ Taken(p) \in {"voice", "text"} => (IMPORTS_OK /\ GROQ_API_KEY)
        /\ ~(IMPORTS_OK /\ GROQ_API_KEY) =>
               /\ Ops(p) \cap {"transcribe", "classify", "extract"} = {}
               /\ pc[p] \notin {"download", "transcribe", "exists", "remove", "finish"}
        /\ ~(IMPORTS_OK /\ GEMINI_API_KEY) => "vision" \notin Ops(p)
        /\ ~IMPORTS_OK => Ops(p) \subseteq {"sendMessage"}
        /\ (WellFormed(p) /\ ~IsCommand(msg(p)) /\ HasResult(p)) =>
               /\ (~GROQ_API_KEY /\ ~Truthy(msg(p).photo)) =>
                      /\ result[p] = fallback
                      /\ result[p].data = None
                      /\ Ops(p) \subseteq {"sendMessage"}
               /\ (~GEMINI_API_KEY /\ Truthy(msg(p).photo)) =>
                      Taken(p) = (IF Truthy(msg(p).voice) /\ IMPORTS_OK /\ GROQ_API_KEY
                                  THEN "voice"
                                  ELSE IF Truthy(msg(p).text) /\ IMPORTS_OK /\ GROQ_API_KEY
                                  THEN "text"
                                  ELSE "fallback")

\* With the processors imported and neither key set, a message with a photo,
\* a voice note and a caption got the fallback reply and no collaborator but
\* the reply send was called.
C28_Witness ==
    \E p \in DOMAIN pc :
        /\ IMPORTS_OK /\ ~GROQ_API_KEY /\ ~GEMINI_API_KEY
        /\ pc[p] = "done" /\ WellFormed(p) /\ ~IsCommand(msg(p))
        /\ Truthy(msg(p).photo) /\ Truthy(msg(p).voice) /\ Truthy(msg(p).text)
        /\ result[p] = fallback
        /\ Ops(p) = {"sendMessage"}

====
